---- MODULE Spec2Model ----
(***************************************************************************)
(* A model of the Perlin class of noise.py: the seeded random source, the  *)
(* white-noise grid, the periodic smoothing pass, the multi-octave blend   *)
(* and its normalisation.                                                  *)
(*                                                                         *)
(* Floats are modelled as exact rationals <<numerator, denominator>> in    *)
(* lowest terms with a positive denominator; a grid is a function from row *)
(* index 0..height-1 to a function from column index 0..width-1, as the    *)
(* list of lists of the source is indexed.                                 *)
(***************************************************************************)
EXTENDS Integers, Sequences, FiniteSets, TLC

\* ------------------------------------------------------------------ bounds
MaxCells == 6
MaxOctave == 3
MaxCalls == 2

\* ------------------------------------------------ float arithmetic (exact)
Abs(n) == IF n < 0 THEN -n ELSE n

RECURSIVE GCD(_, _)
GCD(a, b) == IF b = 0 THEN a ELSE GCD(b, a % b)

Rat(n, d) ==
    LET g == GCD(Abs(n), Abs(d))
        s == IF d < 0 THEN -1 ELSE 1
    IN  <<(s * n) \div g, (s * d) \div g>>

Zero == <<0, 1>>
One == <<1, 1>>

RAdd(x, y) == Rat(x[1] * y[2] + y[1] * x[2], x[2] * y[2])
RSub(x, y) == Rat(x[1] * y[2] - y[1] * x[2], x[2] * y[2])
RMul(x, y) == Rat(x[1] * y[1], x[2] * y[2])
RDiv(x, y) == Rat(x[1] * y[2], x[2] * y[1])

\* x % 1 on a float: the fractional part (Python's % takes the divisor's sign)
RMod1(x) == Rat(x[1] % x[2], x[2])

\* int(x) on a float: truncation towards zero
RInt(x) == IF x[1] >= 0 THEN x[1] \div x[2] ELSE -((-x[1]) \div x[2])

\* 1 << n for n >= 0
RECURSIVE Shl1(_)
Shl1(n) == IF n <= 0 THEN 1 ELSE 2 * Shl1(n - 1)

\* ------------------------------------------------------------------- lists
\* len(xs) of a list indexed 0..len-1
PyLen(xs) == Cardinality(DOMAIN xs)

\* range(n): the indices 0..n-1 in ascending order (empty when n <= 0)
Range(n) == [k \in 1..n |-> k - 1]

\* range(n-1, -1, -1): the indices n-1..0 in descending order
RangeDown(n) == [k \in 1..n |-> n - k]

\* xs[i] can be evaluated: Python accepts -len <= i < len, else IndexError
InRange(i, n) == -n <= i /\ i < n

\* xs[i], a negative index counting from the end
PyIndex(xs, i) == IF i < 0 THEN xs[PyLen(xs) + i] ELSE xs[i]

\* -------------------------------------------------------------- Perlin code
None == -1

\* Perlin.interpolate
interpolate_no_alpha(x, y, alpha) == RAdd(RMul(x, RSub(One, alpha)), y)

interpolate(x, y, alpha) == RAdd(RMul(x, RSub(One, alpha)), RMul(alpha, y))

\* sample_period of _generate_smooth_noise: 1 << (octave or self.octave);
\* `octave or self.octave` is self.octave when octave is None and when it is 0
SamplePeriod(octave, self_octave) ==
    Shl1(IF octave = None \/ octave = 0 THEN self_octave ELSE octave)

SampleFrequency(sample_period) == Rat(1, sample_period)

\* sample_h0 / sample_w0: int(int(i / sample_period) * sample_period)
Sample0Ceil(i, sample_period) ==
    (RInt(Rat(i, sample_period)) + 1) * sample_period

Sample0(i, sample_period) == RInt(Rat(i, sample_period)) * sample_period

\* sample_h1 / sample_w1: int(int(sample_0 + sample_period) % size)
Sample1Clamp(sample_0, sample_period, size) ==
    IF sample_0 + sample_period >= size THEN size - 1
    ELSE sample_0 + sample_period

Sample1(sample_0, sample_period, size) == (sample_0 + sample_period) % size

\* vertical_blend / horizontal_blend: (i - sample_0) * sample_frequency
Blend(i, sample_0, sample_period) ==
    RMul(Rat(i - sample_0, 1), SampleFrequency(sample_period))

\* one cell of _generate_smooth_noise
SmoothCell(base, h, w, height, width, sample_period) ==
    LET sample_h0 == Sample0(h, sample_period)
        sample_h1 == Sample1(sample_h0, sample_period, height)
        vertical_blend == Blend(h, sample_h0, sample_period)
        sample_w0 == Sample0(w, sample_period)
        sample_w1 == Sample1(sample_w0, sample_period, width)
        horizontal_blend == Blend(w, sample_w0, sample_period)
        top == interpolate(PyIndex(PyIndex(base, sample_h0), sample_w0),
                           PyIndex(PyIndex(base, sample_h1), sample_w0),
                           horizontal_blend)
        bottom == interpolate(PyIndex(PyIndex(base, sample_h1), sample_w1),
                              PyIndex(PyIndex(base, sample_h0), sample_w1),
                              horizontal_blend)
    IN  interpolate(top, bottom, vertical_blend)

\* the four list accesses of one cell all succeed
CellInRange(h, w, height, width, sample_period) ==
    LET sample_h0 == Sample0(h, sample_period)
        sample_h1 == Sample1(sample_h0, sample_period, height)
        sample_w0 == Sample0(w, sample_period)
        sample_w1 == Sample1(sample_w0, sample_period, width)
    IN  /\ InRange(sample_h0, height) /\ InRange(sample_h1, height)
        /\ InRange(sample_w0, width) /\ InRange(sample_w1, width)

\* _generate_smooth_noise(base, octave) raises IndexError: len(base[0]) of an
\* empty base, or an anchor outside the base
SmoothRaises(base, octave, self_octave) ==
    \/ PyLen(base) = 0
    \/ LET height == PyLen(base)
           width == PyLen(base[0])
           sample_period == SamplePeriod(octave, self_octave)
       IN  \E h \in 0..(height - 1), w \in 0..(width - 1) :
               ~CellInRange(h, w, height, width, sample_period)

\* _generate_smooth_noise(base, octave), when it does not raise
generate_smooth_noise(base, octave, self_octave) ==
    LET height == PyLen(base)
        width == PyLen(base[0])
        sample_period == SamplePeriod(octave, self_octave)
    IN  [h \in 0..(height - 1) |->
            [w \in 0..(width - 1) |->
                SmoothCell(base, h, w, height, width, sample_period)]]

persistence == <<1, 2>>

\* the blend with the amplitude updated after the accumulation
RECURSIVE BlendLoopLate(_, _, _, _, _, _)
BlendLoopLate(smooth, order, k, amplitude, total_amplitude, noise) ==
    IF k > Len(order)
    THEN [noise |-> noise, total_amplitude |-> total_amplitude]
    ELSE LET o == order[k]
             amp == RMul(amplitude, persistence)
             tot == RAdd(total_amplitude, amplitude)
         IN  BlendLoopLate(smooth, order, k + 1, amp, tot,
                 [h \in DOMAIN noise |->
                     [w \in DOMAIN noise[h] |->
                         RAdd(noise[h][w], RMul(smooth[o][h][w], amplitude))]])

BlendNoiseLate(smooth, order, height, width) ==
    BlendLoopLate(smooth, order, 1, One, Zero,
                  [h \in 0..(height - 1) |-> [w \in 0..(width - 1) |-> Zero]])

\* the blend loop of _generate_perlin_noise over the octave indices `order`,
\* from its k-th iteration on
RECURSIVE BlendLoop(_, _, _, _, _, _)
BlendLoop(smooth, order, k, amplitude, total_amplitude, noise) ==
    IF k > Len(order)
    THEN [noise |-> noise, total_amplitude |-> total_amplitude]
    ELSE LET o == order[k]
             amp == RMul(amplitude, persistence)
             tot == RAdd(total_amplitude, amp)
         IN  BlendLoop(smooth, order, k + 1, amp, tot,
                 [h \in DOMAIN noise |->
                     [w \in DOMAIN noise[h] |->
                         RAdd(noise[h][w], RMul(smooth[o][h][w], amp))]])

BlendNoise(smooth, order, height, width) ==
    BlendLoop(smooth, order, 1, One, Zero,
              [h \in 0..(height - 1) |-> [w \in 0..(width - 1) |-> Zero]])

\* _generate_perlin_noise(base) with the blend loop running over `order`:
\* [error, noise, smooth, total_amplitude]
PerlinNoiseIn(base, self_octave, order) ==
    IF PyLen(base) = 0
    THEN [error |-> "IndexError", noise |-> <<>>, smooth |-> <<>>,
          total_amplitude |-> Zero]
    ELSE
    LET height == PyLen(base)
        width == PyLen(base[0])
    IN  IF \E o \in 0..(self_octave - 1) : SmoothRaises(base, o, self_octave)
        THEN [error |-> "IndexError", noise |-> <<>>, smooth |-> <<>>,
              total_amplitude |-> Zero]
        ELSE
        LET smooth == [o \in 0..(self_octave - 1) |->
                          generate_smooth_noise(base, o, self_octave)]
            blended == BlendNoise(smooth, order, height, width)
        IN  IF height > 0 /\ width > 0 /\ blended.total_amplitude = Zero
            THEN [error |-> "ZeroDivisionError", noise |-> <<>>,
                  smooth |-> smooth,
                  total_amplitude |-> blended.total_amplitude]
            ELSE [error |-> "none",
                  noise |-> [h \in 0..(height - 1) |->
                                [w \in 0..(width - 1) |->
                                    RDiv(blended.noise[h][w],
                                         blended.total_amplitude)]],
                  smooth |-> smooth,
                  total_amplitude |-> blended.total_amplitude]

\* _generate_perlin_noise(base): the blend runs over range(octave)
generate_perlin_noise(base, self_octave) ==
    PerlinNoiseIn(base, self_octave, Range(self_octave))

\* --------------------------------------------------------- random source
Seeds == {"None", "#AU"}
EntropyStreams == {0, 1}

\* Random(seed): the generator state a seed selects; an absent seed takes the
\* state from the system's entropy
SeedStreamUnseeded(seed, entropy) == entropy

SeedStream(seed, entropy) == IF seed = "None" THEN entropy ELSE 2

\* random.random(): the draw at position pos of the sequence of a generator
\* state, a float in [0, 1)
RandomRandom(stream, pos) ==
    Rat((7 * pos * pos + 3 * pos * (stream + 1) + 5 * stream + 1) % 16, 16)

\* _generate_white_noise: cell [h][w] takes the (h*width + w)-th draw of the
\* call
generate_white_noise_swapped(width, height, stream, pos) ==
    [h \in 0..(width - 1) |->
        [w \in 0..(height - 1) |->
            RMod1(RandomRandom(stream, pos + h * height + w))]]

generate_white_noise_column_major(width, height, stream, pos) ==
    [h \in 0..(height - 1) |->
        [w \in 0..(width - 1) |->
            RMod1(RandomRandom(stream, pos + w * height + h))]]

generate_white_noise(width, height, stream, pos) ==
    [h \in 0..(height - 1) |->
        [w \in 0..(width - 1) |->
            RMod1(RandomRandom(stream, pos + h * width + w))]]

\* the number of random.random() calls of one _generate_white_noise
WhiteNoiseDraws(width, height) ==
    IF width > 0 /\ height > 0 THEN width * height ELSE 0

\* ------------------------------------------------------------------ state
Ids == {1, 2}

VARIABLES
    perlin,        \* the Perlin instances: configuration, random source, last call
    base,          \* the base grid handed to a smoothing / blending call
    self_octave,   \* self.octave of the instance of that call
    pc,            \* "start", or the method that has returned
    ret            \* what the method returned

vars == <<perlin, base, self_octave, pc, ret>>

NoInstance ==
    [live |-> FALSE, seed |-> "None", width |-> 0, height |-> 0, octave |-> 0,
     stream |-> 0, pos |-> 0, calls |-> 0, raw |-> <<>>, out |-> <<>>,
     error |-> "none"]

NoReturn ==
    [error |-> "none", noise |-> <<>>, smooth |-> <<>>,
     total_amplitude |-> Zero, octave |-> None]

\* --------------------------------------------- instances: Spec
Init ==
    /\ perlin = [i \in Ids |-> NoInstance]
    /\ base = <<>>
    /\ self_octave = 0
    /\ pc = "idle"
    /\ ret = NoReturn

\* Perlin(seed=..., width=..., height=..., octave=...): __init__ stores the
\* arguments as they are
Construct(i, seed, width, height, octave, entropy) ==
    /\ ~perlin[i].live
    /\ perlin' = [perlin EXCEPT ![i] =
                     [live |-> TRUE, seed |-> seed, width |-> width,
                      height |-> height, octave |-> octave,
                      stream |-> SeedStream(seed, entropy), pos |-> 0,
                      calls |-> 0, raw |-> <<>>, out |-> <<>>,
                      error |-> "none"]]
    /\ UNCHANGED <<base, self_octave, pc, ret>>

\* generate(): _generate_perlin_noise(_generate_white_noise())
generate(i) ==
    /\ perlin[i].live
    /\ perlin[i].calls < MaxCalls
    /\ LET p == perlin[i]
           white == generate_white_noise(p.width, p.height, p.stream, p.pos)
           res == generate_perlin_noise(white, p.octave)
       IN  perlin' = [perlin EXCEPT ![i] =
                         [p EXCEPT !.pos = p.pos + WhiteNoiseDraws(p.width, p.height),
                                   !.calls = p.calls + 1,
                                   !.raw = white,
                                   !.out = res.noise,
                                   !.error = res.error]]
    /\ UNCHANGED <<base, self_octave, pc, ret>>

\* the <<width, height>> pairs of at most MaxCells cells, each side >= least
Sizes(least) ==
    {size \in (least..MaxCells) \X (least..MaxCells) :
        size[1] * size[2] <= MaxCells}

\* The first instance takes any configuration; the second one is its twin: the
\* same width, height and octave, and a seed of its own.
Next ==
    \/ \E seed \in Seeds, size \in Sizes(0), octave \in 0..MaxOctave,
          entropy \in EntropyStreams :
            Construct(1, seed, size[1], size[2], octave, entropy)
    \/ \E seed \in Seeds, entropy \in EntropyStreams :
            /\ perlin[1].live
            /\ Construct(2, seed, perlin[1].width, perlin[1].height,
                         perlin[1].octave, entropy)
    \/ \E i \in Ids : generate(i)

Spec == Init /\ [][Next]_vars

\* ------------------------------- one call on a given base grid: SpecGrid
Samples == {Zero, <<3, 4>>}

Grids(width, height) == [0..(height - 1) -> [0..(width - 1) -> Samples]]

InitGrid ==
    /\ perlin = [i \in Ids |-> NoInstance]
    /\ self_octave \in 1..MaxOctave
    /\ \E size \in Sizes(1) : base \in Grids(size[1], size[2])
    /\ pc = "start"
    /\ ret = NoReturn

\* self._generate_perlin_noise(base)
CallGeneratePerlinNoise ==
    /\ pc = "start"
    /\ pc' = "perlin"
    /\ LET r == generate_perlin_noise(base, self_octave)
       IN  ret' = [error |-> r.error, noise |-> r.noise, smooth |-> r.smooth,
                   total_amplitude |-> r.total_amplitude, octave |-> None]
    /\ UNCHANGED <<perlin, base, self_octave>>

\* self._generate_smooth_noise(base, octave)
CallGenerateSmoothNoise(octave) ==
    /\ pc = "start"
    /\ pc' = "smooth"
    /\ ret' = IF SmoothRaises(base, octave, self_octave)
              THEN [NoReturn EXCEPT !.error = "IndexError", !.octave = octave]
              ELSE [NoReturn EXCEPT
                        !.noise = generate_smooth_noise(base, octave, self_octave),
                        !.octave = octave]
    /\ UNCHANGED <<perlin, base, self_octave>>

NextGrid ==
    \/ CallGeneratePerlinNoise
    \/ \E octave \in {None} \cup 0..MaxOctave : CallGenerateSmoothNoise(octave)

SpecGrid == InitGrid /\ [][NextGrid]_vars

\* ================================================================= claims
\* x <= y and x < y on rationals
RLe(x, y) == x[1] * y[2] <= y[1] * x[2]
RLt(x, y) == x[1] * y[2] < y[1] * x[2]

ValidConfig(p) == p.width >= 1 /\ p.height >= 1 /\ p.octave >= 1

IsShape(g, height, width) ==
    /\ DOMAIN g = 0..(height - 1)
    /\ \A h \in DOMAIN g : DOMAIN g[h] = 0..(width - 1)

Height == PyLen(base)
Width == PyLen(base[0])

\* C1: with octave = 1, a generate() call on a valid configuration returns
\* the raw white-noise grid of that call, cell for cell.
C1_SingleOctaveIdentity ==
    \A i \in Ids :
        (perlin[i].live /\ perlin[i].calls >= 1 /\ ValidConfig(perlin[i])
            /\ perlin[i].octave = 1)
        => (perlin[i].error = "none" /\ perlin[i].out = perlin[i].raw)

\* C2: no constructed instance holds an invalid configuration (construction
\* rejects width <= 0, height <= 0 and octave <= 0), and no generate() call
\* ever fails.
C2_InvalidConfigRejected ==
    \A i \in Ids :
        perlin[i].live => (ValidConfig(perlin[i]) /\ perlin[i].error = "none")

\* C3: for a valid configuration and a base grid with cells in [0,1), every
\* cell of the grid _generate_perlin_noise returns lies in [0,1].
C3_Range ==
    pc = "perlin" =>
        /\ ret.error = "none"
        /\ \A h \in 0..(Height - 1), w \in 0..(Width - 1) :
               RLe(Zero, ret.noise[h][w]) /\ RLe(ret.noise[h][w], One)

\* a blended cell that is none of the base samples
C3_Witness ==
    /\ pc = "perlin"
    /\ self_octave >= 2
    /\ \E h \in 0..(Height - 1), w \in 0..(Width - 1) :
           ret.noise[h][w] \notin Samples /\ RLt(<<1, 2>>, ret.noise[h][w])

\* C4: two instances constructed with the same seed (not None) and the same
\* width, height and octave hold, after the same number of generate() calls,
\* the same raw grid, the same result and the same outcome.
C4_Determinism ==
    \A i \in Ids, j \in Ids :
        (/\ perlin[i].live /\ perlin[j].live
         /\ perlin[i].seed # "None" /\ perlin[i].seed = perlin[j].seed
         /\ perlin[i].width = perlin[j].width
         /\ perlin[i].height = perlin[j].height
         /\ perlin[i].octave = perlin[j].octave
         /\ perlin[i].calls = perlin[j].calls)
        => (/\ perlin[i].raw = perlin[j].raw
            /\ perlin[i].out = perlin[j].out
            /\ perlin[i].error = perlin[j].error)

\* two seeded twins after their second call, with a result that is not flat
C4_Witness ==
    /\ perlin[1].live /\ perlin[2].live
    /\ perlin[1].seed = "#AU" /\ perlin[2].seed = "#AU"
    /\ perlin[1].width = 3 /\ perlin[2].width = 3
    /\ perlin[1].height = 2 /\ perlin[2].height = 2
    /\ perlin[1].octave = 2 /\ perlin[2].octave = 2
    /\ perlin[1].calls = 2 /\ perlin[2].calls = 2
    /\ perlin[1].error = "none"
    /\ perlin[1].out[0][0] # perlin[1].out[1][2]

\* C5: after k generate() calls the random source stands at k*width*height,
\* and cell [h][w] of the raw grid of the k-th call is the draw numbered
\* (k-1)*width*height + h*width + w of the instance's sequence.
C5_DrawsRowMajor ==
    \A i \in Ids :
        perlin[i].live =>
            LET p == perlin[i] IN
            /\ p.pos = p.calls * p.width * p.height
            /\ p.calls >= 1 =>
                   \A h \in 0..(p.height - 1), w \in 0..(p.width - 1) :
                       p.raw[h][w] =
                           RMod1(RandomRandom(p.stream,
                               (p.calls - 1) * p.width * p.height
                                   + h * p.width + w))

\* a second call on a 2 x 2 grid, the source at 8
C5_Witness ==
    \E i \in Ids :
        /\ perlin[i].live /\ perlin[i].calls = 2
        /\ perlin[i].width = 2 /\ perlin[i].height = 2
        /\ perlin[i].octave = 2 /\ perlin[i].error = "none"
        /\ perlin[i].pos = 8
        /\ perlin[i].raw[0][1] # perlin[i].raw[1][0]

\* C6: for a valid configuration the raw grid, every per-octave smoothed grid
\* and the grid generate() returns have height rows of width cells.
C6_Shape ==
    \A i \in Ids :
        (perlin[i].live /\ perlin[i].calls >= 1 /\ ValidConfig(perlin[i])) =>
            LET p == perlin[i] IN
            /\ p.error = "none"
            /\ IsShape(p.raw, p.height, p.width)
            /\ IsShape(p.out, p.height, p.width)
            /\ \A o \in 0..(p.octave - 1) :
                   IsShape(generate_smooth_noise(p.raw, o, p.octave),
                           p.height, p.width)

\* a call on a grid that is not square
C6_Witness ==
    \E i \in Ids :
        /\ perlin[i].live /\ perlin[i].calls >= 1
        /\ perlin[i].width = 1 /\ perlin[i].height = 2 /\ perlin[i].octave = 2
        /\ PyLen(perlin[i].out) = 2 /\ PyLen(perlin[i].out[0]) = 1

RECURSIVE RPow(_, _)
RPow(x, k) == IF k <= 0 THEN One ELSE RMul(x, RPow(x, k - 1))

\* the sum over o = from..n-1 of smooth[o][h][w] * persistence^(o+1), or
\* persistence^(n-o) when down
RECURSIVE WeightedSum(_, _, _, _, _, _)
WeightedSum(smooth, h, w, from, n, down) ==
    IF from >= n THEN Zero
    ELSE RAdd(RMul(smooth[from][h][w],
                   RPow(persistence, IF down THEN n - from ELSE from + 1)),
              WeightedSum(smooth, h, w, from + 1, n, down))

\* what _generate_perlin_noise returns with the blend loop in the commented
\* out descending order
Descending == PerlinNoiseIn(base, self_octave, RangeDown(self_octave))

\* C7 as stated: the ascending and the descending blend loop give the same
\* normalised grid.
C7_OrderIndependent ==
    pc = "perlin" => ret.noise = Descending.noise

\* C7 amended: both orders reach the same total amplitude; the k-th octave
\* visited is weighted by persistence^k, so the ascending loop weights octave
\* o by persistence^(o+1) and the descending loop by persistence^(n-o); the
\* two grids are equal for n = 1.
C7_OrderWeights ==
    pc = "perlin" =>
        LET down == Descending IN
        /\ ret.error = "none" /\ down.error = "none"
        /\ ret.total_amplitude = down.total_amplitude
        /\ \A h \in 0..(Height - 1), w \in 0..(Width - 1) :
               /\ RMul(ret.noise[h][w], ret.total_amplitude) =
                      WeightedSum(ret.smooth, h, w, 0, self_octave, FALSE)
               /\ RMul(down.noise[h][w], ret.total_amplitude) =
                      WeightedSum(ret.smooth, h, w, 0, self_octave, TRUE)
        /\ self_octave = 1 => ret.noise = down.noise

\* three octaves whose two orders give different grids
C7_Witness ==
    /\ pc = "perlin"
    /\ self_octave = 3
    /\ ret.noise # Descending.noise

\* C8: the blend combines n smoothed grids, smoothed[o] being the smoothing
\* of the base grid with sample_period = 2^o, for o = 0..n-1.
C8_PeriodPerOctave ==
    pc = "perlin" =>
        /\ PyLen(ret.smooth) = self_octave
        /\ \A o \in 0..(self_octave - 1) :
               \A h \in 0..(Height - 1), w \in 0..(Width - 1) :
                   ret.smooth[o][h][w] =
                       SmoothCell(base, h, w, Height, Width, Shl1(o))

Period == SamplePeriod(ret.octave, self_octave)

\* C9 as stated: in a pass with sample_period >= height both anchor rows are 0
\* for every row and the smoothed grid is flat along the vertical axis; with
\* sample_period >= width both anchor columns are 0 for every column.
C9_WrapCollapse ==
    pc = "smooth" =>
        /\ Period >= Height =>
               \A h \in 0..(Height - 1) :
                   /\ Sample0(h, Period) = 0
                   /\ Sample1(Sample0(h, Period), Period, Height) = 0
                   /\ \A w \in 0..(Width - 1) :
                          ret.noise[h][w] = ret.noise[0][w]
        /\ Period >= Width =>
               \A w \in 0..(Width - 1) :
                   /\ Sample0(w, Period) = 0
                   /\ Sample1(Sample0(w, Period), Period, Width) = 0

\* C9 amended: with sample_period >= height the lower anchor row is 0 and the
\* upper anchor row is sample_period mod height for every row, which is 0
\* exactly when height divides sample_period (columns alike). With both
\* anchor rows 0 the cell is interpolate(base[0][w0], base[0][w1],
\* vertical_blend), which still varies with the row; with all four anchors 0
\* the smoothed grid is base[0][0] everywhere.
C9_WrapAnchors ==
    pc = "smooth" =>
        /\ ret.error = "none"
        /\ Period >= Height =>
               \A h \in 0..(Height - 1) :
                   LET h0 == Sample0(h, Period)
                       h1 == Sample1(h0, Period, Height)
                   IN  /\ h0 = 0
                       /\ h1 = Period % Height
                       /\ h1 = 0 =>
                              \A w \in 0..(Width - 1) :
                                  LET w0 == Sample0(w, Period)
                                      w1 == Sample1(w0, Period, Width)
                                  IN  ret.noise[h][w] =
                                          interpolate(base[0][w0], base[0][w1],
                                                      Blend(h, 0, Period))
        /\ Period >= Width =>
               \A w \in 0..(Width - 1) :
                   LET w0 == Sample0(w, Period)
                       w1 == Sample1(w0, Period, Width)
                   IN  w0 = 0 /\ w1 = Period % Width
        /\ (Period >= Height /\ Period >= Width
                /\ Period % Height = 0 /\ Period % Width = 0) =>
               \A h \in 0..(Height - 1), w \in 0..(Width - 1) :
                   ret.noise[h][w] = base[0][0]

\* a pass whose period exceeds a width it is no multiple of, the upper anchor
\* column not 0, and one whose rows collapse but whose result is not flat
C9_Witness ==
    /\ pc = "smooth"
    /\ Width = 3 /\ Period = 4 /\ Height = 2
    /\ Sample1(Sample0(2, Period), Period, Width) = 1
    /\ ret.noise[1][0] # ret.noise[0][0]

\* C10: for a valid configuration _generate_perlin_noise returns a grid: in
\* every smoothing pass the anchors stay inside the grid, both blend factors
\* lie in [0,1), and the total amplitude is positive.
C10_NoCrash ==
    pc = "perlin" =>
        /\ ret.error = "none"
        /\ RLt(Zero, ret.total_amplitude)
        /\ IsShape(ret.noise, Height, Width)
        /\ \A o \in 0..(self_octave - 1) :
               LET sample_period == SamplePeriod(o, self_octave) IN
               /\ \A h \in 0..(Height - 1) :
                      LET h0 == Sample0(h, sample_period)
                          h1 == Sample1(h0, sample_period, Height)
                          vertical_blend == Blend(h, h0, sample_period)
                      IN  /\ 0 <= h0 /\ h0 <= h
                          /\ 0 <= h1 /\ h1 < Height
                          /\ RLe(Zero, vertical_blend)
                          /\ RLt(vertical_blend, One)
               /\ \A w \in 0..(Width - 1) :
                      LET w0 == Sample0(w, sample_period)
                          w1 == Sample1(w0, sample_period, Width)
                          horizontal_blend == Blend(w, w0, sample_period)
                      IN  /\ 0 <= w0 /\ w0 <= w
                          /\ 0 <= w1 /\ w1 < Width
                          /\ RLe(Zero, horizontal_blend)
                          /\ RLt(horizontal_blend, One)

\* a call whose largest sample period exceeds both sides of the grid
C10_Witness ==
    /\ pc = "perlin"
    /\ self_octave = 3
    /\ Width = 3 /\ Height = 2
    /\ SamplePeriod(0, self_octave) = 8
    /\ ret.error = "none"

====
